---- MODULE Spec2Model ----
(***************************************************************************)
(* Model of ipynb-mcp (src/main.py): the notebook tools get_full_output,   *)
(* edit_cell, add_cell, delete_cell and merge_cells over one notebook file.*)
(*                                                                         *)
(* A notebook is a sequence of cells; a cell is a record                   *)
(*   [cell_type, source, outputs]; text is a sequence of one-character     *)
(* strings, so that concatenation (merge) is computed as the code does it. *)
(* Handlers take and return 1-based cell indices; TLA+ sequences are       *)
(* 1-based, so the code's 0-based list position adj is position adj + 1.   *)
(***************************************************************************)
EXTENDS Integers, Sequences, FiniteSets, TLC

VARIABLES
    disk,     \* the notebook file: [state, cells]
    pre,      \* Spec: the file as it was when the last handler was entered
    call,     \* Spec: the last handler call and its arguments
    result,   \* Spec: the record that call returned
    pc,       \* SpecConc: per caller, the handler step it is at
    args,     \* SpecConc: per caller, the call it is running
    snap,     \* SpecConc: per caller, the cells _read_notebook returned
    nb,       \* SpecConc: per caller, the in-memory notebook.cells
    ret,      \* SpecConc: per caller, the record its call returned
    hist      \* SpecSession, SpecLineage: what is kept of earlier calls

vars == <<disk, pre, call, result, pc, args, snap, nb, ret, hist>>

-----------------------------------------------------------------------------
(* Bounds of the model.                                                    *)

\* the notebooks the file may hold initially have at most MaxInitCells cells
MaxInitCells == 3
\* add_cell is called only on a stored notebook of fewer than MaxAddLen cells
MaxAddLen == 2
\* merge_cells is not called when the merged source would exceed MaxSrcLen
MaxSrcLen == 3

-----------------------------------------------------------------------------
(* Values.                                                                 *)

None == "None"

\* The text of a node that has no such attribute.  nbformat.read reports a
\* notebook that does not follow the schema in the log and returns it all
\* the same, so a node may lack an attribute the code reads.
Absent == <<"<absent>">>

\* What a handler leaves when an exception leaves it: no record is returned.
Raised(exception) == [exception |-> exception]

\* the handler returned a record
Returned(r) == "exception" \notin DOMAIN r

\* nbformat output nodes, all with the same fields; unused fields are None.
StreamOutput(name, text) ==
    [output_type |-> "stream", name |-> name, text |-> text,
     data |-> <<>>, ename |-> None, evalue |-> None, traceback |-> None]

\* data is the sequence of <<mime key, payload>> pairs (dict order)
DataOutput(output_type, data) ==
    [output_type |-> output_type, name |-> None, text |-> <<>>,
     data |-> data, ename |-> None, evalue |-> None, traceback |-> None]

ErrorOutput(ename, evalue, traceback) ==
    [output_type |-> "error", name |-> None, text |-> <<>>,
     data |-> <<>>, ename |-> ename, evalue |-> evalue,
     traceback |-> traceback]

\* nbformat.v4.new_code_cell(source): a code cell with no outputs
new_code_cell(source) ==
    [cell_type |-> "code", source |-> source, outputs |-> <<>>]

\* nbformat.v4.new_markdown_cell(source): markdown cells carry no outputs
new_markdown_cell(source) ==
    [cell_type |-> "markdown", source |-> source, outputs |-> <<>>]

\* The file: a readable notebook, no file, or a file open('w') truncated and
\* nbformat.write did not complete (unreadable as a notebook).
NotebookFile(cells) == [state |-> "notebook", cells |-> cells]
MissingFile == [state |-> "missing", cells |-> <<>>]
TruncatedFile == [state |-> "truncated", cells |-> <<>>]

-----------------------------------------------------------------------------
(* Document store adapter.                                                 *)

\* _read_notebook: (notebook, error)
ReadNotebook(d) ==
    CASE d.state = "missing" ->
            [notebook |-> None, error |-> "Notebook file not found"]
      [] d.state = "truncated" ->
            [notebook |-> None, error |-> "Error reading notebook"]
      [] OTHER ->
            [notebook |-> d.cells, error |-> None]

\* _write_notebook: (success, error), and the file it leaves.  fault is what
\* the storage does to this call: "none"; "open" (open(filepath, 'w') raises:
\* the file is as it was); "write" (open has truncated the file and
\* nbformat.write raises before the notebook is completely written).
WriteNotebook(cells, d, fault) ==
    CASE fault = "none" ->
            [success |-> TRUE, error |-> None, disk |-> NotebookFile(cells)]
      [] fault = "open" ->
            [success |-> FALSE, error |-> "Error writing notebook", disk |-> d]
      [] OTHER ->
            [success |-> FALSE, error |-> "Error writing notebook",
             disk |-> TruncatedFile]

-----------------------------------------------------------------------------
(* List operations of notebook.cells, at the code's 0-based position adj.  *)

\* 0 <= adj < len(cells)
InRange(adj, cells) == 0 <= adj /\ adj < Len(cells)

\* cells.insert(adj, cell), for 0 <= adj <= len(cells)
ListInsert(cells, adj, cell) ==
    SubSeq(cells, 1, adj) \o <<cell>> \o SubSeq(cells, adj + 1, Len(cells))

\* del cells[adj], for 0 <= adj < len(cells)
ListDelete(cells, adj) ==
    SubSeq(cells, 1, adj) \o SubSeq(cells, adj + 2, Len(cells))

\* cells[adj] = cell, for 0 <= adj < len(cells)
ListSet(cells, adj, cell) == [cells EXCEPT ![adj + 1] = cell]

-----------------------------------------------------------------------------
(* edit_cell.                                                              *)

\* the bounds check of edit_cell (and of delete_cell): the error, or None
CellIndexError(cells, cell_index) ==
    IF ~InRange(cell_index - 1, cells)
    THEN "Cell index out of bounds"
    ELSE None

\* A faulty variant of EditCellApply: the outputs of an edited code cell are kept.
EditCellApplyKeepOutputs(cells, cell_index, new_source_content) ==
    ListSet(cells, cell_index - 1,
            [cells[cell_index] EXCEPT !.source = new_source_content])

\* the in-memory mutation of edit_cell: set the source and, for a code
\* cell, clear the outputs
EditCellApply(cells, cell_index, new_source_content) ==
    LET adjusted_cell_index == cell_index - 1
        edited == [cells[adjusted_cell_index + 1]
                       EXCEPT !.source = new_source_content]
        cleared == IF edited.cell_type = "code"
                   THEN [edited EXCEPT !.outputs = <<>>]
                   ELSE edited
    IN  ListSet(cells, adjusted_cell_index, cleared)

edit_cell(d, cell_index, new_source_content, fault) ==
    LET r == ReadNotebook(d) IN
    IF r.error # None
    THEN [result |-> [success |-> FALSE, error |-> r.error], disk |-> d]
    ELSE IF CellIndexError(r.notebook, cell_index) # None
    THEN [result |-> [success |-> FALSE,
                      error |-> CellIndexError(r.notebook, cell_index)],
          disk |-> d]
    ELSE LET w == WriteNotebook(
                      EditCellApply(r.notebook, cell_index, new_source_content),
                      d, fault)
         IN  [result |-> [success |-> w.success, error |-> w.error],
              disk |-> w.disk]

-----------------------------------------------------------------------------
(* add_cell.                                                               *)

\* the checks of add_cell, in the code's order: the error, or None
AddCellError(cells, cell_index, cell_type) ==
    LET adjusted_cell_index == cell_index - 1 IN
    IF ~(0 <= adjusted_cell_index /\ adjusted_cell_index <= Len(cells))
    THEN "Cell index out of bounds for adding"
    ELSE IF cell_type \notin {"code", "markdown"}
    THEN "Invalid cell type"
    ELSE None

\* A faulty variant of AddCellApply: the 1-based index is used as the list position.
AddCellApplyOffByOne(cells, cell_index, cell_type, source_content) ==
    LET new_cell == IF cell_type = "code"
                    THEN new_code_cell(source_content)
                    ELSE new_markdown_cell(source_content)
        at == IF cell_index <= Len(cells) THEN cell_index ELSE Len(cells)
    IN  ListInsert(cells, at, new_cell)

\* the in-memory mutation of add_cell
AddCellApply(cells, cell_index, cell_type, source_content) ==
    LET adjusted_cell_index == cell_index - 1
        new_cell == IF cell_type = "code"
                    THEN new_code_cell(source_content)
                    ELSE new_markdown_cell(source_content)
    IN  ListInsert(cells, adjusted_cell_index, new_cell)

add_cell(d, cell_index, cell_type, source_content, fault) ==
    LET r == ReadNotebook(d) IN
    IF r.error # None
    THEN [result |-> [success |-> FALSE, new_cell_actual_index |-> -1,
                      error |-> r.error],
          disk |-> d]
    ELSE IF AddCellError(r.notebook, cell_index, cell_type) # None
    THEN [result |-> [success |-> FALSE, new_cell_actual_index |-> -1,
                      error |-> AddCellError(r.notebook, cell_index, cell_type)],
          disk |-> d]
    ELSE LET w == WriteNotebook(
                      AddCellApply(r.notebook, cell_index, cell_type,
                                   source_content),
                      d, fault)
         IN  [result |-> [success |-> w.success,
                          new_cell_actual_index |->
                              IF w.success THEN cell_index ELSE -1,
                          error |-> w.error],
              disk |-> w.disk]

-----------------------------------------------------------------------------
(* delete_cell.                                                            *)

\* A faulty variant of DeleteCellApply: the 1-based index is used as the list
\* position (the last cell goes when there is no such position).
DeleteCellApplyOffByOne(cells, cell_index) ==
    IF cell_index < Len(cells)
    THEN ListDelete(cells, cell_index)
    ELSE ListDelete(cells, Len(cells) - 1)

\* the in-memory mutation of delete_cell
DeleteCellApply(cells, cell_index) ==
    LET adjusted_cell_index == cell_index - 1
    IN  ListDelete(cells, adjusted_cell_index)

delete_cell(d, cell_index, fault) ==
    LET r == ReadNotebook(d) IN
    IF r.error # None
    THEN [result |-> [success |-> FALSE, error |-> r.error], disk |-> d]
    ELSE IF CellIndexError(r.notebook, cell_index) # None
    THEN [result |-> [success |-> FALSE,
                      error |-> CellIndexError(r.notebook, cell_index)],
          disk |-> d]
    ELSE LET w == WriteNotebook(DeleteCellApply(r.notebook, cell_index),
                                d, fault)
         IN  [result |-> [success |-> w.success, error |-> w.error],
              disk |-> w.disk]

-----------------------------------------------------------------------------
(* merge_cells.                                                            *)

\* A faulty variant of MergeCellsError: the consecutive check comes first.
MergeCellsErrorConsecutiveFirst(cells, cell_index1, cell_index2) ==
    LET adj_idx1 == cell_index1 - 1
        adj_idx2 == cell_index2 - 1
    IN  IF adj_idx2 # adj_idx1 + 1
        THEN "Cells are not consecutive"
        ELSE IF ~InRange(adj_idx1, cells) \/ ~InRange(adj_idx2, cells)
        THEN "One or both cell indices are out of bounds"
        ELSE None

\* the checks of merge_cells, in the code's order: the error, or None
MergeCellsError(cells, cell_index1, cell_index2) ==
    LET adj_idx1 == cell_index1 - 1
        adj_idx2 == cell_index2 - 1
    IN  IF ~InRange(adj_idx1, cells) \/ ~InRange(adj_idx2, cells)
        THEN "One or both cell indices are out of bounds"
        ELSE IF adj_idx2 # adj_idx1 + 1
        THEN "Cells are not consecutive"
        ELSE None

\* A faulty variant of MergedCell: a code result inherits the first cell's outputs.
MergedCellKeepOutputs(cell1, cell2) ==
    LET merged_source == cell1.source \o <<"\n">> \o cell2.source IN
    IF cell1.cell_type = "code" /\ cell2.cell_type = "code"
    THEN [new_code_cell(merged_source) EXCEPT !.outputs = cell1.outputs]
    ELSE new_markdown_cell(merged_source)

\* the merged cell of merge_cells
MergedCell(cell1, cell2) ==
    LET merged_source == cell1.source \o <<"\n">> \o cell2.source
        merged_cell_type ==
            IF cell1.cell_type = "code" /\ cell2.cell_type = "code"
            THEN "code"
            ELSE "markdown"
    IN  IF merged_cell_type = "code"
        THEN [new_code_cell(merged_source) EXCEPT !.outputs = <<>>]
        ELSE new_markdown_cell(merged_source)

\* the in-memory mutation of merge_cells
MergeCellsApply(cells, cell_index1, cell_index2) ==
    LET adj_idx1 == cell_index1 - 1
        adj_idx2 == cell_index2 - 1
        merged_cell == MergedCell(cells[adj_idx1 + 1], cells[adj_idx2 + 1])
    IN  ListDelete(ListSet(cells, adj_idx1, merged_cell), adj_idx2)

merge_cells(d, cell_index1, cell_index2, fault) ==
    LET r == ReadNotebook(d) IN
    IF r.error # None
    THEN [result |-> [success |-> FALSE, error |-> r.error], disk |-> d]
    ELSE IF MergeCellsError(r.notebook, cell_index1, cell_index2) # None
    THEN [result |-> [success |-> FALSE,
                      error |-> MergeCellsError(r.notebook, cell_index1,
                                                cell_index2)],
          disk |-> d]
    ELSE LET w == WriteNotebook(
                      MergeCellsApply(r.notebook, cell_index1, cell_index2),
                      d, fault)
         IN  [result |-> [success |-> w.success, error |-> w.error],
              disk |-> w.disk]

-----------------------------------------------------------------------------
(* get_full_output.                                                        *)

\* key in output.data
HasKey(data, key) == \E i \in 1..Len(data) : data[i][1] = key

\* output.data[key]
DataAt(data, key) == data[CHOOSE i \in 1..Len(data) : data[i][1] = key][2]

\* json.dumps(output.data): the keys and payloads of the dict, in its order
RECURSIVE JsonItems(_)
JsonItems(data) ==
    IF data = <<>>
    THEN <<>>
    ELSE <<data[1][1], ":">> \o data[1][2]
             \o (IF Len(data) > 1 THEN <<",">> ELSE <<>>)
             \o JsonItems(Tail(data))

JsonDumps(data) == <<"{">> \o JsonItems(data) \o <<"}">>

\* A faulty variant of FullOutputError: the lower bound of the output index is
\* checked on the 1-based index's scale, so the first output is refused.
FullOutputErrorSkipFirst(cells, cell_index, output_index) ==
    LET adjusted_cell_index == cell_index - 1
        adjusted_output_index == output_index - 1
    IN  IF ~InRange(adjusted_cell_index, cells)
        THEN "Cell index out of bounds"
        ELSE IF cells[adjusted_cell_index + 1].cell_type # "code"
                \/ cells[adjusted_cell_index + 1].outputs = <<>>
        THEN "Cell is not a code cell or has no outputs"
        ELSE IF ~(1 <= adjusted_output_index
                  /\ adjusted_output_index
                         < Len(cells[adjusted_cell_index + 1].outputs))
        THEN "Output index out of bounds"
        ELSE None

\* the checks of get_full_output, in the code's order: the error, or None
FullOutputError(cells, cell_index, output_index) ==
    LET adjusted_cell_index == cell_index - 1
        adjusted_output_index == output_index - 1
    IN  IF ~InRange(adjusted_cell_index, cells)
        THEN "Cell index out of bounds"
        ELSE IF cells[adjusted_cell_index + 1].cell_type # "code"
                \/ cells[adjusted_cell_index + 1].outputs = <<>>
        THEN "Cell is not a code cell or has no outputs"
        ELSE IF ~InRange(adjusted_output_index,
                         cells[adjusted_cell_index + 1].outputs)
        THEN "Output index out of bounds"
        ELSE None

\* A faulty variant of SelectPayload: the type hint is not looked at.
SelectPayloadNoHint(output, type_hint) ==
    CASE output.output_type = "stream" ->
            [full_output_data |-> output.text,
             mime_type |-> "text/" \o output.name]
      [] output.output_type \in {"display_data", "execute_result"} ->
            IF HasKey(output.data, "text/plain")
            THEN [full_output_data |-> DataAt(output.data, "text/plain"),
                  mime_type |-> "text/plain"]
            ELSE IF HasKey(output.data, "image/png")
            THEN [full_output_data |-> DataAt(output.data, "image/png"),
                  mime_type |-> "image/png"]
            ELSE [full_output_data |-> JsonDumps(output.data),
                  mime_type |-> "application/json"]
      [] output.output_type = "error" ->
            [full_output_data |-> [ename |-> output.ename,
                                   evalue |-> output.evalue,
                                   traceback |-> output.traceback],
             mime_type |-> "application/json"]
      [] OTHER ->
            [full_output_data |-> None, mime_type |-> None]

\* the payload and mime type get_full_output selects for one output
SelectPayload(output, type_hint) ==
    CASE output.output_type = "stream" ->
            [full_output_data |-> output.text,
             mime_type |-> "text/" \o output.name]
      [] output.output_type \in {"display_data", "execute_result"} ->
            IF type_hint = "image" /\ HasKey(output.data, "image/png")
            THEN [full_output_data |-> DataAt(output.data, "image/png"),
                  mime_type |-> "image/png"]
            ELSE IF type_hint = "text" /\ HasKey(output.data, "text/plain")
            THEN [full_output_data |-> DataAt(output.data, "text/plain"),
                  mime_type |-> "text/plain"]
            ELSE IF type_hint = "table" /\ HasKey(output.data, "text/html")
            THEN [full_output_data |-> DataAt(output.data, "text/html"),
                  mime_type |-> "text/html"]
            ELSE IF HasKey(output.data, "text/plain")
            THEN [full_output_data |-> DataAt(output.data, "text/plain"),
                  mime_type |-> "text/plain"]
            ELSE IF HasKey(output.data, "image/png")
            THEN [full_output_data |-> DataAt(output.data, "image/png"),
                  mime_type |-> "image/png"]
            ELSE [full_output_data |-> JsonDumps(output.data),
                  mime_type |-> "application/json"]
      [] output.output_type = "error" ->
            [full_output_data |-> [ename |-> output.ename,
                                   evalue |-> output.evalue,
                                   traceback |-> output.traceback],
             mime_type |-> "application/json"]
      [] OTHER ->
            [full_output_data |-> None, mime_type |-> None]

\* output.text of a stream output without a text: the attribute access of
\* line 166 raises, and nothing in get_full_output catches it
FullOutputRaises(output) ==
    output.output_type = "stream" /\ output.text = Absent

get_full_output(d, cell_index, output_index, type_hint) ==
    LET r == ReadNotebook(d) IN
    IF r.error # None
    THEN [full_output_data |-> None, mime_type |-> None, error |-> r.error]
    ELSE IF FullOutputError(r.notebook, cell_index, output_index) # None
    THEN [full_output_data |-> None, mime_type |-> None,
          error |-> FullOutputError(r.notebook, cell_index, output_index)]
    ELSE IF FullOutputRaises(r.notebook[cell_index].outputs[output_index])
    THEN Raised("AttributeError")
    ELSE LET sel == SelectPayload(r.notebook[cell_index].outputs[output_index],
                                  type_hint)
         IN  [full_output_data |-> sel.full_output_data,
              mime_type |-> sel.mime_type, error |-> None]

-----------------------------------------------------------------------------
(* Text.  A text (a cell source, a stream text, a payload) is a sequence   *)
(* of one-character strings.  A formatted string is a sequence of pieces:  *)
(* the characters of the texts it embeds and, as one piece each, the       *)
(* literal parts of the f-string that builds it.                           *)

MAX_TEXT_OUTPUT_LENGTH == 500
MAX_TABLE_ROWS == 5
TRUNCATION_MARKER == "[TRUNCATED]"
\* A backquote cannot be written in a string of this language: the hint is
\* given without the backquotes the code puts around the tool's name, and
\* the three backquotes of a fence are written as three tildes.
HINT_FULL_OUTPUT == "Use get_full_output for full content."
CodeFence == "~~~"

\* the characters str.strip() removes
Whitespace == {" ", "\t", "\n", "\r", "\f"}

RECURSIVE LStrip(_)
LStrip(text) ==
    IF text # <<>> /\ text[1] \in Whitespace THEN LStrip(Tail(text)) ELSE text

RECURSIVE RStrip(_)
RStrip(text) ==
    IF text # <<>> /\ text[Len(text)] \in Whitespace
    THEN RStrip(SubSeq(text, 1, Len(text) - 1))
    ELSE text

\* text.strip()
Strip(text) == RStrip(LStrip(text))

\* text[:n]
Prefix(text, n) == SubSeq(text, 1, IF Len(text) < n THEN Len(text) ELSE n)

\* cell_type.capitalize(), for the cell types of nbformat
Capitalize(cell_type) ==
    CASE cell_type = "code" -> "Code"
      [] cell_type = "markdown" -> "Markdown"
      [] cell_type = "raw" -> "Raw"
      [] OTHER -> cell_type

UpperLetters ==
    <<"A", "B", "C", "D", "E", "F", "G", "H", "I", "J", "K", "L", "M",
      "N", "O", "P", "Q", "R", "S", "T", "U", "V", "W", "X", "Y", "Z">>

LowerLetters ==
    <<"a", "b", "c", "d", "e", "f", "g", "h", "i", "j", "k", "l", "m",
      "n", "o", "p", "q", "r", "s", "t", "u", "v", "w", "x", "y", "z">>

\* the lower-case form of a character (re.IGNORECASE compares these)
ToLower(c) ==
    IF \E k \in 1..Len(UpperLetters) : UpperLetters[k] = c
    THEN LowerLetters[CHOOSE k \in 1..Len(UpperLetters) : UpperLetters[k] = c]
    ELSE c

\* pat occurs in text at position i; ci: letters compared case-insensitively
\* (pat is then given in lower case)
MatchAt(text, i, pat, ci) ==
    /\ i >= 1
    /\ i + Len(pat) - 1 <= Len(text)
    /\ \A k \in 1..Len(pat) :
           (IF ci THEN ToLower(text[i + k - 1]) ELSE text[i + k - 1]) = pat[k]

\* the first position >= from at which pat occurs in text, or 0
Find(text, pat, from, ci) ==
    LET at == { i \in from..Len(text) : MatchAt(text, i, pat, ci) }
    IN  IF at = {} THEN 0 ELSE CHOOSE i \in at : \A j \in at : i <= j

\* pat in text
Contains(text, pat) == Find(text, pat, 1, FALSE) # 0

-----------------------------------------------------------------------------
(* Table extractor: _format_table_output.                                  *)

\* re.search(r'<tag.*?>(.*?)</tag>', text, re.DOTALL | re.IGNORECASE) from
\* position from on: [found, content (group 1), end (position after the
\* match)].  open is "<tag" and close "</tag>" as lower-case texts.  The
\* leftmost match starts at the first "<tag"; .*? then stops at the first
\* ">" and (.*?) at the first "</tag>" after it.
SearchElement(text, open, close, from) ==
    LET i == Find(text, open, from, TRUE)
        j == IF i = 0 THEN 0 ELSE Find(text, <<">">>, i + Len(open), FALSE)
        k == IF j = 0 THEN 0 ELSE Find(text, close, j + 1, TRUE)
    IN  IF k = 0
        THEN [found |-> FALSE, content |-> <<>>, end |-> 0]
        ELSE [found |-> TRUE, content |-> SubSeq(text, j + 1, k - 1),
              end |-> k + Len(close)]

\* re.findall(r'<tag.*?>(.*?)</tag>', text, re.DOTALL | re.IGNORECASE): the
\* contents of the successive non-overlapping matches
RECURSIVE FindAllElements(_, _, _, _)
FindAllElements(text, open, close, from) ==
    LET m == SearchElement(text, open, close, from)
    IN  IF ~m.found
        THEN <<>>
        ELSE <<m.content>> \o FindAllElements(text, open, close, m.end)

\* re.sub(r'<.*?>', '', text): every "<" up to the first ">" after it on the
\* same line (no DOTALL here) is removed
RECURSIVE StripTags(_)
StripTags(text) ==
    IF text = <<>>
    THEN <<>>
    ELSE LET j == Find(text, <<">">>, 2, FALSE)
             oneline == j # 0 /\ \A k \in 2..(j - 1) : text[k] # "\n"
         IN  IF text[1] = "<" /\ oneline
             THEN StripTags(SubSeq(text, j + 1, Len(text)))
             ELSE <<text[1]>> \o StripTags(Tail(text))

\* the character references of the model's payloads, and what they stand for
Entities ==
    << <<<<"&", "a", "m", "p", ";">>, "&">>,
       <<<<"&", "l", "t", ";">>, "<">>,
       <<<<"&", "g", "t", ";">>, ">">>,
       <<<<"&", "q", "u", "o", "t", ";">>, "\"">>,
       <<<<"&", "#", "3", "9", ";">>, "'">> >>

\* html.unescape(text), for texts whose character references are among
\* Entities: one pass, left to right
RECURSIVE Unescape(_)
Unescape(text) ==
    IF text = <<>>
    THEN <<>>
    ELSE LET hit == { e \in 1..Len(Entities) :
                          MatchAt(text, 1, Entities[e][1], FALSE) }
         IN  IF hit = {}
             THEN <<text[1]>> \o Unescape(Tail(text))
             ELSE LET e == CHOOSE x \in hit : TRUE
                  IN  <<Entities[e][2]>>
                        \o Unescape(SubSeq(text, Len(Entities[e][1]) + 1,
                                           Len(text)))

\* unescape(re.sub(r'<.*?>', '', cell)).strip()
CleanCell(cell) == Strip(Unescape(StripTags(cell)))

\* " | ".join(cells), for a non-empty list
RECURSIVE JoinCells(_)
JoinCells(cells) ==
    IF Len(cells) = 1
    THEN cells[1]
    ELSE cells[1] \o <<" | ">> \o JoinCells(Tail(cells))

\* "| " + " | ".join([clean(c) for c in cells]) + " |"
PipeRow(cells) ==
    <<"| ">> \o JoinCells([k \in 1..Len(cells) |-> CleanCell(cells[k])])
             \o <<" |">>

\* "|" + "---|" * n
SeparatorRow(n) == <<"|">> \o [k \in 1..n |-> "---|"]

\* " (cell c [1-based], output o [1-based])"
Locator(cell_idx, output_idx) ==
    <<" (cell ", ToString(cell_idx), " [1-based], output ",
      ToString(output_idx), " [1-based])">>

\* the header rows of the table: none when there is no thead or no th in it
HeaderRows(html_content) ==
    LET header_match == SearchElement(html_content,
                            <<"<", "t", "h", "e", "a", "d">>,
                            <<"<", "/", "t", "h", "e", "a", "d", ">">>, 1)
        th_matches == FindAllElements(header_match.content,
                          <<"<", "t", "h">>, <<"<", "/", "t", "h", ">">>, 1)
    IN  IF header_match.found /\ th_matches # <<>>
        THEN <<PipeRow(th_matches), SeparatorRow(Len(th_matches))>>
        ELSE <<>>

\* tr_matches: the rows of the tbody, [] when there is no tbody
BodyRowMatches(html_content) ==
    LET body_match == SearchElement(html_content,
                          <<"<", "t", "b", "o", "d", "y">>,
                          <<"<", "/", "t", "b", "o", "d", "y", ">">>, 1)
    IN  IF body_match.found
        THEN FindAllElements(body_match.content,
                 <<"<", "t", "r">>, <<"<", "/", "t", "r", ">">>, 1)
        ELSE <<>>

\* A faulty variant of DataRows: the loop stops one row later.
RECURSIVE DataRowsOneMore(_, _)
DataRowsOneMore(tr_matches, i) ==
    IF i > Len(tr_matches) \/ i - 1 > MAX_TABLE_ROWS
    THEN <<>>
    ELSE LET td_matches == FindAllElements(tr_matches[i],
                               <<"<", "t", "d">>, <<"<", "/", "t", "d", ">">>, 1)
         IN  (IF td_matches # <<>> THEN <<PipeRow(td_matches)>> ELSE <<>>)
                 \o DataRowsOneMore(tr_matches, i + 1)

\* the data rows appended for tr_matches[i..]: those of the first
\* MAX_TABLE_ROWS rows that have a td
RECURSIVE DataRows(_, _)
DataRows(tr_matches, i) ==
    IF i > Len(tr_matches) \/ i - 1 >= MAX_TABLE_ROWS
    THEN <<>>
    ELSE LET td_matches == FindAllElements(tr_matches[i],
                               <<"<", "t", "d">>, <<"<", "/", "t", "d", ">">>, 1)
         IN  (IF td_matches # <<>> THEN <<PipeRow(td_matches)>> ELSE <<>>)
                 \o DataRows(tr_matches, i + 1)

\* "\n".join(rows), for a non-empty list
RECURSIVE JoinLines(_)
JoinLines(rows) ==
    IF Len(rows) = 1
    THEN rows[1]
    ELSE rows[1] \o <<"\n">> \o JoinLines(Tail(rows))

format_table_output(html_content, cell_idx, output_idx) ==
    LET tr_matches == BodyRowMatches(html_content)
        table_rows == HeaderRows(html_content) \o DataRows(tr_matches, 1)
    IN  IF table_rows # <<>>
        THEN <<"Table (HTML): \n", CodeFence, "markdown\n">>
                 \o JoinLines(table_rows)
                 \o (IF Len(tr_matches) > MAX_TABLE_ROWS
                     THEN <<"\n... ", TRUNCATION_MARKER>>
                     ELSE <<>>)
                 \o <<"\n", CodeFence, "\n", HINT_FULL_OUTPUT>>
                 \o Locator(cell_idx, output_idx)
        ELSE <<"HTML content (truncated): ">>
                 \o Prefix(html_content, MAX_TEXT_OUTPUT_LENGTH)
                 \o <<"... ", TRUNCATION_MARKER, " ", HINT_FULL_OUTPUT>>
                 \o Locator(cell_idx, output_idx)

-----------------------------------------------------------------------------
(* Output formatter and content renderer: get_formatted_content.           *)

\* A faulty variant of format_text_output: a text of exactly the budget's
\* length is truncated too.
format_text_output_at_budget(text_content, cell_idx, output_idx) ==
    IF Len(text_content) >= MAX_TEXT_OUTPUT_LENGTH
    THEN <<"Text: ">> \o SubSeq(text_content, 1, MAX_TEXT_OUTPUT_LENGTH)
             \o <<"... ", TRUNCATION_MARKER, " ", HINT_FULL_OUTPUT>>
             \o Locator(cell_idx, output_idx)
    ELSE <<"Text: ">> \o text_content

format_text_output(text_content, cell_idx, output_idx) ==
    IF Len(text_content) > MAX_TEXT_OUTPUT_LENGTH
    THEN <<"Text: ">> \o SubSeq(text_content, 1, MAX_TEXT_OUTPUT_LENGTH)
             \o <<"... ", TRUNCATION_MARKER, " ", HINT_FULL_OUTPUT>>
             \o Locator(cell_idx, output_idx)
    ELSE <<"Text: ">> \o text_content

\* format(n, "03d")
ZeroPad3(n) ==
    (IF n < 10 THEN <<"00">> ELSE IF n < 100 THEN <<"0">> ELSE <<>>)
        \o <<ToString(n)>>

format_image_output(cell_idx, output_idx) ==
    <<"Image (PNG) - IMG_ID">> \o ZeroPad3(cell_idx) \o ZeroPad3(output_idx)
        \o <<" ", HINT_FULL_OUTPUT>> \o Locator(cell_idx, output_idx)

\* ', '.join(output.data.keys())
RECURSIVE JoinKeys(_)
JoinKeys(data) ==
    IF data = <<>>
    THEN <<>>
    ELSE IF Len(data) = 1
    THEN <<data[1][1]>>
    ELSE <<data[1][1], ", ">> \o JoinKeys(Tail(data))

\* " (cell c, output o)": the locator of the summaries built inline
ShortLocator(cell_idx, output_idx) ==
    <<" (cell ", ToString(cell_idx), ", output ", ToString(output_idx), ")">>

\* output_summary of one output of cell cell_idx (1-based), output
\* output_idx (1-based); empty for an output type the code does not know
OutputSummary(output, cell_idx, output_idx) ==
    CASE output.output_type = "stream" ->
            format_text_output(output.text, cell_idx, output_idx)
      [] output.output_type \in {"display_data", "execute_result"} ->
            IF HasKey(output.data, "image/png")
            THEN format_image_output(cell_idx, output_idx)
            ELSE IF /\ HasKey(output.data, "text/html")
                    /\ \/ Contains(DataAt(output.data, "text/html"),
                                   <<"<", "t", "a", "b", "l", "e">>)
                       \/ Contains(DataAt(output.data, "text/html"),
                                   <<"<", "T", "A", "B", "L", "E">>)
            THEN format_table_output(DataAt(output.data, "text/html"),
                                     cell_idx, output_idx)
            ELSE IF HasKey(output.data, "text/plain")
            THEN format_text_output(DataAt(output.data, "text/plain"),
                                    cell_idx, output_idx)
            ELSE <<"Other data type: ">> \o JoinKeys(output.data)
                     \o <<" ", HINT_FULL_OUTPUT>>
                     \o ShortLocator(cell_idx, output_idx)
      [] output.output_type = "error" ->
            <<"Error: ">> \o output.ename \o <<": ">> \o output.evalue
                \o <<" ", HINT_FULL_OUTPUT>>
                \o ShortLocator(cell_idx, output_idx)
      [] OTHER -> <<>>

\* the lines of the outputs j.. of a cell: "- " + summary + "\n" for each
RECURSIVE OutputLines(_, _, _)
OutputLines(outputs, cell_idx, j) ==
    IF j > Len(outputs)
    THEN <<>>
    ELSE <<"- ">> \o OutputSummary(outputs[j], cell_idx, j) \o <<"\n">>
             \o OutputLines(outputs, cell_idx, j + 1)

\* "[[Cell i - Kind]]\n"
CellHeader(cell_idx, cell_type) ==
    <<"[[Cell ", ToString(cell_idx), " - ", Capitalize(cell_type), "]]\n">>

\* "[[Cell i - Output]]\n"
OutputHeader(cell_idx) ==
    <<"[[Cell ", ToString(cell_idx), " - Output]]\n">>

\* what one pass of the loop over notebook.cells appends for cell i (1-based)
RenderCell(cell, cell_idx) ==
    CellHeader(cell_idx, cell.cell_type)
        \o <<CodeFence, "\n">> \o Strip(cell.source)
        \o <<"\n", CodeFence, "\n">>
        \o (IF cell.cell_type = "code" /\ cell.outputs # <<>>
            THEN OutputHeader(cell_idx) \o OutputLines(cell.outputs, cell_idx, 1)
            ELSE <<>>)
        \o <<"\n">>

\* A faulty variant of RenderCells: the cells are numbered from 0.
RECURSIVE RenderCellsFromZero(_, _)
RenderCellsFromZero(cells, i) ==
    IF i > Len(cells)
    THEN <<>>
    ELSE RenderCell(cells[i], i - 1) \o RenderCellsFromZero(cells, i + 1)

RECURSIVE RenderCells(_, _)
RenderCells(cells, i) ==
    IF i > Len(cells)
    THEN <<>>
    ELSE RenderCell(cells[i], i) \o RenderCells(cells, i + 1)

\* output.text of a stream output without a text: the attribute access of
\* line 116 raises, and nothing in get_formatted_content catches it
RenderRaises(cells) ==
    \E i \in 1..Len(cells) :
        /\ cells[i].cell_type = "code"
        /\ \E j \in 1..Len(cells[i].outputs) :
               /\ cells[i].outputs[j].output_type = "stream"
               /\ cells[i].outputs[j].text = Absent

get_formatted_content(d) ==
    LET r == ReadNotebook(d) IN
    IF r.error # None
    THEN [formatted_content |-> <<>>, error |-> r.error]
    ELSE IF RenderRaises(r.notebook)
    THEN Raised("AttributeError")
    ELSE [formatted_content |-> RenderCells(r.notebook, 1), error |-> None]

-----------------------------------------------------------------------------
(* The inputs of the model.                                                *)

Callers == {1, 2}

\* what the storage does to a call's save step (see WriteNotebook)
Faults == {"none", "open", "write"}

\* the longest notebook the file can come to hold
MaxCells == IF MaxInitCells > MaxAddLen THEN MaxInitCells ELSE MaxAddLen

\* cell indices a caller passes: 0, every index of a notebook, and beyond
CellIndices == 0..(MaxCells + 1)

\* the faults a call can meet: none when it never reaches its save step
SaveFaults(reaches) == IF reaches THEN Faults ELSE {"none"}

\* output indices a caller passes: 0, every index of a cell's outputs, beyond
OutputIndices == 0..3

\* cell_type arguments of add_cell: the two kinds and an unrecognized one
CellTypes == {"code", "markdown", "raw"}

\* type_hint arguments of get_full_output: absent, the three the code
\* knows, and one it does not
TypeHints == {None, "image", "text", "table", "json"}

\* source text a caller passes
\* the source an edit or an insertion may pass: one with a leading blank, so
\* that the renderer's trimming shows
Texts == {<<" ", "n">>}

StdoutOutput == StreamOutput("stdout", <<"h">>)

ResultOutput ==
    DataOutput("execute_result",
               << <<"text/plain", <<"t">> >>, <<"image/png", <<"i">> >> >>)

\* the cells of the notebooks the file may hold initially: code with
\* outputs, and markdown
InitCells ==
    { [cell_type |-> "code", source |-> <<"p">>,
       outputs |-> <<StdoutOutput, ResultOutput>>],
      new_markdown_cell(<<"m">>) }

InitNotebooks == UNION { [1..n -> InitCells] : n \in 0..MaxInitCells }

InitFiles == {MissingFile} \cup { NotebookFile(c) : c \in InitNotebooks }

Readable(d) == ReadNotebook(d).error = None

\* the bound on the stored notebook's length
AddCellBounded(d) == Readable(d) => Len(d.cells) < MaxAddLen

\* the bound on source length: merge_cells is not called on two cells whose
\* merged source is longer than MaxSrcLen
MergeCellsBounded(d, cell_index1, cell_index2) ==
    (Readable(d) /\ MergeCellsError(d.cells, cell_index1, cell_index2) = None)
        => Len(d.cells[cell_index1].source) + 1
               + Len(d.cells[cell_index2].source) <= MaxSrcLen

-----------------------------------------------------------------------------
(* Spec: sequential dispatch.  Every handler action is one whole call:     *)
(* load, validate, mutate in memory, persist.  The dispatcher hands the    *)
(* returned record to the caller (Return) before it takes the next call.   *)

Idle == [p \in Callers |-> "idle"]
NoCall == [op |-> "none"]
NoResult == [error |-> None]
NoHistory == <<>>

Init ==
    /\ disk \in InitFiles
    /\ pre = disk
    /\ call = NoCall
    /\ result = NoResult
    /\ pc = Idle
    /\ args = [p \in Callers |-> NoCall]
    /\ snap = [p \in Callers |-> <<>>]
    /\ nb = [p \in Callers |-> <<>>]
    /\ ret = [p \in Callers |-> NoResult]
    /\ hist = NoHistory

GetFormattedContent ==
    /\ call = NoCall
    /\ call' = [op |-> "get_formatted_content"]
    /\ pre' = disk
    /\ result' = get_formatted_content(disk)
    /\ disk' = disk
    /\ UNCHANGED <<pc, args, snap, nb, ret, hist>>

GetFullOutput ==
    \E i \in CellIndices, o \in OutputIndices, h \in TypeHints :
        /\ call = NoCall
        /\ call' = [op |-> "get_full_output", cell_index |-> i,
                    output_index |-> o, type_hint |-> h]
        /\ pre' = disk
        /\ result' = get_full_output(disk, i, o, h)
        /\ disk' = disk
        /\ UNCHANGED <<pc, args, snap, nb, ret, hist>>

EditCell ==
    \E i \in CellIndices, t \in Texts :
    \E f \in SaveFaults(Readable(disk) /\ CellIndexError(disk.cells, i) = None) :
        /\ call = NoCall
        /\ call' = [op |-> "edit_cell", cell_index |-> i,
                    new_source_content |-> t, fault |-> f]
        /\ pre' = disk
        /\ result' = edit_cell(disk, i, t, f).result
        /\ disk' = edit_cell(disk, i, t, f).disk
        /\ UNCHANGED <<pc, args, snap, nb, ret, hist>>

AddCell ==
    \E i \in CellIndices, k \in CellTypes, t \in Texts :
    \E f \in SaveFaults(Readable(disk) /\ AddCellError(disk.cells, i, k) = None) :
        /\ call = NoCall
        /\ AddCellBounded(disk)
        /\ call' = [op |-> "add_cell", cell_index |-> i, cell_type |-> k,
                    source_content |-> t, fault |-> f]
        /\ pre' = disk
        /\ result' = add_cell(disk, i, k, t, f).result
        /\ disk' = add_cell(disk, i, k, t, f).disk
        /\ UNCHANGED <<pc, args, snap, nb, ret, hist>>

DeleteCell ==
    \E i \in CellIndices :
    \E f \in SaveFaults(Readable(disk) /\ CellIndexError(disk.cells, i) = None) :
        /\ call = NoCall
        /\ call' = [op |-> "delete_cell", cell_index |-> i, fault |-> f]
        /\ pre' = disk
        /\ result' = delete_cell(disk, i, f).result
        /\ disk' = delete_cell(disk, i, f).disk
        /\ UNCHANGED <<pc, args, snap, nb, ret, hist>>

MergeCells ==
    \E i \in CellIndices, j \in CellIndices :
    \E f \in SaveFaults(Readable(disk)
                     /\ MergeCellsError(disk.cells, i, j) = None) :
        /\ call = NoCall
        /\ MergeCellsBounded(disk, i, j)
        /\ call' = [op |-> "merge_cells", cell_index1 |-> i,
                    cell_index2 |-> j, fault |-> f]
        /\ pre' = disk
        /\ result' = merge_cells(disk, i, j, f).result
        /\ disk' = merge_cells(disk, i, j, f).disk
        /\ UNCHANGED <<pc, args, snap, nb, ret, hist>>

\* mcp.run(): the call's record goes back to the caller; the next call is taken
Return ==
    /\ call # NoCall
    /\ call' = NoCall
    /\ result' = NoResult
    /\ pre' = disk
    /\ UNCHANGED <<disk, pc, args, snap, nb, ret, hist>>

Next ==
    \/ Return
    \/ GetFormattedContent
    \/ GetFullOutput
    \/ EditCell
    \/ AddCell
    \/ DeleteCell
    \/ MergeCells

Spec == Init /\ [][Next]_vars

-----------------------------------------------------------------------------
(* SpecConc: two callers, each running one mutating call on the same path. *)
(* Nothing in src/main.py locks the file or orders the handlers, so a      *)
(* handler's steps (load, validate, mutate in memory, persist) interleave  *)
(* with the other caller's.                                                *)

\* the notebooks the file may hold initially in SpecConc
MaxConcCells == 2

ConcFiles ==
    { NotebookFile(c) :
          c \in UNION { [1..n -> InitCells] : n \in 1..MaxConcCells } }

ConcIndices == 0..(MaxConcCells + 1)

\* the validation of a mutating handler: the error, or None
ValidationError(a, cells) ==
    CASE a.op = "edit_cell" -> CellIndexError(cells, a.cell_index)
      [] a.op = "add_cell" -> AddCellError(cells, a.cell_index, a.cell_type)
      [] a.op = "delete_cell" -> CellIndexError(cells, a.cell_index)
      [] a.op = "merge_cells" ->
            MergeCellsError(cells, a.cell_index1, a.cell_index2)

\* the in-memory mutation of a mutating handler
Mutated(a, cells) ==
    CASE a.op = "edit_cell" ->
            EditCellApply(cells, a.cell_index, a.new_source_content)
      [] a.op = "add_cell" ->
            AddCellApply(cells, a.cell_index, a.cell_type, a.source_content)
      [] a.op = "delete_cell" -> DeleteCellApply(cells, a.cell_index)
      [] a.op = "merge_cells" ->
            MergeCellsApply(cells, a.cell_index1, a.cell_index2)

\* the record a handler returns from an early return
EarlyReturn(a, error) ==
    IF a.op = "add_cell"
    THEN [success |-> FALSE, new_cell_actual_index |-> -1, error |-> error]
    ELSE [success |-> FALSE, error |-> error]

\* the record a handler returns after _write_notebook
FinalReturn(a, w) ==
    IF a.op = "add_cell"
    THEN [success |-> w.success,
          new_cell_actual_index |-> IF w.success THEN a.cell_index ELSE -1,
          error |-> w.error]
    ELSE [success |-> w.success, error |-> w.error]

\* the calls a caller may make on file d; the storage is healthy in SpecConc
ConcCalls(d) ==
    LET edits == { [op |-> "edit_cell", cell_index |-> i,
                    new_source_content |-> t, fault |-> "none"] :
                       i \in ConcIndices, t \in Texts }
        adds == IF AddCellBounded(d)
                THEN { [op |-> "add_cell", cell_index |-> i, cell_type |-> k,
                        source_content |-> t, fault |-> "none"] :
                           i \in ConcIndices, k \in CellTypes, t \in Texts }
                ELSE {}
        deletes == { [op |-> "delete_cell", cell_index |-> i,
                      fault |-> "none"] : i \in ConcIndices }
        merges == { a \in { [op |-> "merge_cells", cell_index1 |-> i,
                             cell_index2 |-> j, fault |-> "none"] :
                                i \in ConcIndices, j \in ConcIndices } :
                        MergeCellsBounded(d, a.cell_index1, a.cell_index2) }
    IN  edits \cup adds \cup deletes \cup merges

InitConc ==
    /\ disk \in ConcFiles
    /\ pre = disk
    /\ call = NoCall
    /\ result = NoResult
    /\ pc = Idle
    /\ args = [p \in Callers |-> NoCall]
    /\ snap = [p \in Callers |-> <<>>]
    /\ nb = [p \in Callers |-> <<>>]
    /\ ret = [p \in Callers |-> NoResult]
    /\ hist = NoHistory

\* a handler is entered with call a and reads the notebook
ConcLoad(p) ==
    /\ pc[p] = "idle"
    /\ \E a \in ConcCalls(disk) :
           LET r == ReadNotebook(disk) IN
           /\ args' = [args EXCEPT ![p] = a]
           /\ IF r.error # None
              THEN /\ ret' = [ret EXCEPT ![p] = EarlyReturn(a, r.error)]
                   /\ pc' = [pc EXCEPT ![p] = "done"]
                   /\ UNCHANGED <<snap, nb>>
              ELSE /\ snap' = [snap EXCEPT ![p] = r.notebook]
                   /\ nb' = [nb EXCEPT ![p] = r.notebook]
                   /\ pc' = [pc EXCEPT ![p] = "validate"]
                   /\ ret' = ret
    /\ UNCHANGED <<disk, pre, call, result, hist>>

\* A faulty variant of ConcValidate: a failed check does not return.
ConcValidateNoReturn(p) ==
    /\ pc[p] = "validate"
    /\ pc' = [pc EXCEPT ![p] = "mutate"]
    /\ UNCHANGED <<disk, pre, call, result, args, snap, nb, ret, hist>>

\* the handler's checks: an early return, or on to the mutation
ConcValidate(p) ==
    /\ pc[p] = "validate"
    /\ LET e == ValidationError(args[p], nb[p]) IN
       IF e # None
       THEN /\ ret' = [ret EXCEPT ![p] = EarlyReturn(args[p], e)]
            /\ pc' = [pc EXCEPT ![p] = "done"]
       ELSE /\ pc' = [pc EXCEPT ![p] = "mutate"]
            /\ ret' = ret
    /\ UNCHANGED <<disk, pre, call, result, args, snap, nb, hist>>

\* the handler mutates notebook.cells in memory
ConcMutate(p) ==
    /\ pc[p] = "mutate"
    /\ nb' = [nb EXCEPT ![p] = Mutated(args[p], nb[p])]
    /\ pc' = [pc EXCEPT ![p] = "persist"]
    /\ UNCHANGED <<disk, pre, call, result, args, snap, ret, hist>>

\* A faulty variant of ConcPersist: the save is refused when the file is no longer
\* the one this call loaded (an optimistic version check).
ConcPersistVersioned(p) ==
    /\ pc[p] = "persist"
    /\ LET w == IF disk = NotebookFile(snap[p])
                THEN WriteNotebook(nb[p], disk, args[p].fault)
                ELSE [success |-> FALSE, error |-> "Notebook changed on disk",
                      disk |-> disk]
       IN  /\ disk' = w.disk
           /\ ret' = [ret EXCEPT ![p] = FinalReturn(args[p], w)]
    /\ pc' = [pc EXCEPT ![p] = "done"]
    /\ UNCHANGED <<pre, call, result, args, snap, nb, hist>>

\* the handler writes its in-memory notebook over the file and returns
ConcPersist(p) ==
    /\ pc[p] = "persist"
    /\ LET w == WriteNotebook(nb[p], disk, args[p].fault)
       IN  /\ disk' = w.disk
           /\ ret' = [ret EXCEPT ![p] = FinalReturn(args[p], w)]
    /\ pc' = [pc EXCEPT ![p] = "done"]
    /\ UNCHANGED <<pre, call, result, args, snap, nb, hist>>

NextConc ==
    \E p \in Callers :
        \/ ConcLoad(p)
        \/ ConcValidate(p)
        \/ ConcMutate(p)
        \/ ConcPersist(p)

SpecConc == InitConc /\ [][NextConc]_vars

-----------------------------------------------------------------------------
(* SpecRoundTrip: one caller inserts a cell at an index and then deletes   *)
(* the cell at the same index.  The stored notebook, the index, the kind,  *)
(* the text and what the storage does to the two save steps are drawn      *)
(* initially; pre keeps the file as it was before the insertion.           *)

InitRoundTrip ==
    /\ disk \in InitFiles
    /\ pre = disk
    /\ call \in [op : {"round_trip"}, stage : {0}, cell_index : CellIndices,
                 cell_type : CellTypes, source_content : Texts,
                 fault : Faults, fault2 : Faults]
    /\ result = [add |-> NoResult, delete |-> NoResult]
    /\ pc = Idle
    /\ args = [p \in Callers |-> NoCall]
    /\ snap = [p \in Callers |-> <<>>]
    /\ nb = [p \in Callers |-> <<>>]
    /\ ret = [p \in Callers |-> NoResult]
    /\ hist = NoHistory

RoundTripAdd ==
    /\ call.stage = 0
    /\ LET h == add_cell(disk, call.cell_index, call.cell_type,
                         call.source_content, call.fault)
       IN  /\ result' = [result EXCEPT !.add = h.result]
           /\ disk' = h.disk
    /\ call' = [call EXCEPT !.stage = 1]
    /\ UNCHANGED <<pre, pc, args, snap, nb, ret, hist>>

RoundTripDelete ==
    /\ call.stage = 1
    /\ LET h == delete_cell(disk, call.cell_index, call.fault2)
       IN  /\ result' = [result EXCEPT !.delete = h.result]
           /\ disk' = h.disk
    /\ call' = [call EXCEPT !.stage = 2]
    /\ UNCHANGED <<pre, pc, args, snap, nb, ret, hist>>

NextRoundTrip ==
    \/ RoundTripAdd
    \/ RoundTripDelete

SpecRoundTrip == InitRoundTrip /\ [][NextRoundTrip]_vars

\* C9: for every stored notebook, every index k in 1..len(cells) + 1, every
\* valid kind and every text, add_cell at k followed by delete_cell at k
\* (the storage failing neither save) succeed and leave a stored cell
\* sequence equal to the original one: same kinds, sources and outputs in the
\* same order; and whenever both calls succeed the file is the original one.
C9_RoundTrip ==
    (call.op = "round_trip" /\ call.stage = 2)
    => /\ (/\ Readable(pre)
           /\ call.cell_index \in 1..(Len(pre.cells) + 1)
           /\ call.cell_type \in {"code", "markdown"}
           /\ call.fault = "none"
           /\ call.fault2 = "none")
          => /\ result.add.success
             /\ result.delete.success
       /\ (result.add.success /\ result.delete.success)
          => /\ disk.state = "notebook"
             /\ disk.cells = pre.cells

\* C9 witness: a cell was inserted between two different cells that carry
\* outputs or are markdown, then deleted, and the file is the original one.
C9_Witness ==
    /\ call.op = "round_trip"
    /\ call.stage = 2
    /\ call.cell_index = 2
    /\ result.add.success
    /\ result.delete.success
    /\ Len(pre.cells) = 2
    /\ pre.cells[1] # pre.cells[2]
    /\ pre.cells[1].outputs # <<>>
    /\ disk = pre

-----------------------------------------------------------------------------
(* SpecFormat: the read-only tools on notebooks whose code cell carries    *)
(* every kind of output: streams around the text budget, results with      *)
(* every combination of payload keys, tables, errors and an output of an   *)
(* unrecognized type.  The stored notebook is drawn initially; the calls   *)
(* are get_formatted_content and get_full_output.                          *)

\* a table has at most MaxBodyRows rows in its body
MaxBodyRows == 8
\* the code cell is at most the MaxFormatCells-th cell of its notebook
MaxFormatCells == 2
\* at most MaxPrefix outputs come before the last output of the code cell
MaxPrefix == 1

\* a text of length n whose characters vary with the position
LongText(n) == [k \in 1..n |-> ToString(k % 10)]

\* the lengths of stream texts: none, short, around the budget, far beyond
TextLengths ==
    {0, 1, MAX_TEXT_OUTPUT_LENGTH - 1, MAX_TEXT_OUTPUT_LENGTH,
     MAX_TEXT_OUTPUT_LENGTH + 1, 800}

StreamOutputs ==
    { StreamOutput("stdout", LongText(n)) : n \in TextLengths }
        \cup {StreamOutput("stderr", <<"e">>)}

\* markup: <name>content</name>
Element(name, content) ==
    <<"<">> \o name \o <<">">> \o content \o <<"<", "/">> \o name \o <<">">>

\* the letter-casings of the table tag
TableTags ==
    { <<"t", "a", "b", "l", "e">>, <<"T", "A", "B", "L", "E">>,
      <<"T", "a", "b", "l", "e">> }

\* the r-th body row: two data cells
BodyRow(r) ==
    Element(<<"t", "r">>,
            Element(<<"t", "d">>, <<ToString(r)>>)
                \o Element(<<"t", "d">>, <<"v">>))

RECURSIVE BodyRowsFrom(_, _)
BodyRowsFrom(r, n) ==
    IF r > n THEN <<>> ELSE BodyRow(r) \o <<"\n">> \o BodyRowsFrom(r + 1, n)

\* a header of two columns, the second with markup and an entity in it
TableHeader ==
    Element(<<"t", "h", "e", "a", "d">>,
            Element(<<"t", "r">>,
                    Element(<<"t", "h">>, <<"a">>)
                        \o Element(<<"t", "h">>,
                                   Element(<<"b">>, <<" ", "&", "l", "t", ";">>))))

\* a table under the given tag, with or without a header, with n body rows
TableHtml(tag, header, n) ==
    Element(tag,
            (IF header THEN TableHeader ELSE <<>>)
                \o Element(<<"t", "b", "o", "d", "y">>, BodyRowsFrom(1, n)))

\* markup without a table
PlainHtml == Element(<<"p">>, <<"x">>)

\* a table with a header and one body row, under each casing of the tag
CasedTables == { TableHtml(tag, TRUE, 1) : tag \in TableTags }

\* tables with a header and 0..MaxBodyRows rows, tables without a header,
\* and a table tag with neither header nor body
Tables ==
    { TableHtml(<<"t", "a", "b", "l", "e">>, TRUE, n) : n \in 0..MaxBodyRows }
        \cup { TableHtml(<<"t", "a", "b", "l", "e">>, FALSE, n) :
                   n \in {0, MAX_TABLE_ROWS + 1} }
        \cup { Element(<<"t", "a", "b", "l", "e">>, <<"x">>) }

\* the data dict with the given payloads, in this key order; <<>> for html
\* or plain and FALSE for image or json leave the key out
Data(html, plain, image, json) ==
    (IF html = <<>> THEN <<>> ELSE << <<"text/html", html>> >>)
        \o (IF plain = <<>> THEN <<>> ELSE << <<"text/plain", plain>> >>)
        \o (IF image THEN << <<"image/png", <<"i", "V">> >> >> ELSE <<>>)
        \o (IF json THEN << <<"application/json", <<"{", "}">> >> >> ELSE <<>>)

\* the data dicts of results: every combination of the keys text/html
\* (markup without a table, or a table under each casing of the tag),
\* text/plain, image/png and application/json; each table alone; a plain
\* text over the budget alone
ResultData ==
    { Data(html, plain, image, json) :
          html \in {<<>>, PlainHtml} \cup CasedTables,
          plain \in {<<>>, <<"t">>}, image \in BOOLEAN, json \in BOOLEAN }
        \cup { Data(html, <<>>, FALSE, FALSE) : html \in Tables }
        \cup { Data(<<>>, LongText(MAX_TEXT_OUTPUT_LENGTH + 1), FALSE, FALSE) }

ResultOutputs ==
    { DataOutput("execute_result", d) : d \in ResultData }
        \cup { DataOutput("display_data", d) :
                   d \in { e \in ResultData : Len(e) = 4 } }

\* an output whose output_type the code does not know
UnknownOutput ==
    [DataOutput("update_display_data", << <<"text/plain", <<"t">> >> >>)
         EXCEPT !.text = <<"u">>]

ErrorOutputs ==
    { ErrorOutput(<<"E">>, <<"b", "a", "d">>, <<"t", "b">>) }

\* a stream output that does not follow the schema: it has no text
MalformedOutput == StreamOutput("stdout", Absent)

FormatOutputs ==
    StreamOutputs \cup ResultOutputs \cup ErrorOutputs
        \cup {UnknownOutput, MalformedOutput}

\* the outputs that may come before the last one of the code cell
PrefixOutputs == {StdoutOutput, UnknownOutput}

OutputPrefixes == UNION { [1..n -> PrefixOutputs] : n \in 0..MaxPrefix }

\* the notebooks: markdown cells, then one code cell with outputs
FormatNotebooks ==
    { [k \in 1..(c - 1) |-> new_markdown_cell(<<"m">>)]
          \o << [cell_type |-> "code", source |-> <<"p">>,
                 outputs |-> prefix \o <<output>>] >> :
      c \in 1..MaxFormatCells, prefix \in OutputPrefixes,
      output \in FormatOutputs }

FormatFiles == { NotebookFile(c) : c \in FormatNotebooks }

InitFormat ==
    /\ disk \in FormatFiles
    /\ pre = disk
    /\ call = NoCall
    /\ result = NoResult
    /\ pc = Idle
    /\ args = [p \in Callers |-> NoCall]
    /\ snap = [p \in Callers |-> <<>>]
    /\ nb = [p \in Callers |-> <<>>]
    /\ ret = [p \in Callers |-> NoResult]
    /\ hist = NoHistory

NextFormat ==
    \/ Return
    \/ GetFormattedContent
    \/ GetFullOutput

SpecFormat == InitFormat /\ [][NextFormat]_vars

-----------------------------------------------------------------------------
(* SpecSession: one caller renders, fetches and edits the file at one      *)
(* path, call after call.  hist keeps the record the last render returned  *)
(* (digest), the record of a render repeated with no mutating call since   *)
(* (again), whether a mutating call was made since the last render         *)
(* (changed), how many mutating calls were made (edits), and the last       *)
(* locator written in digest that was fetched, with error null, before any *)
(* mutating call followed the render (fetched).                            *)

\* a session makes at most MaxSessionEdits mutating calls
MaxSessionEdits == 1

\* the whole handler of mutating call a on file d: [result, disk]
Handler(a, d) ==
    CASE a.op = "edit_cell" ->
            edit_cell(d, a.cell_index, a.new_source_content, a.fault)
      [] a.op = "add_cell" ->
            add_cell(d, a.cell_index, a.cell_type, a.source_content, a.fault)
      [] a.op = "delete_cell" -> delete_cell(d, a.cell_index, a.fault)
      [] a.op = "merge_cells" ->
            merge_cells(d, a.cell_index1, a.cell_index2, a.fault)

InitSession ==
    /\ disk \in ConcFiles
    /\ pre = disk
    /\ call = NoCall
    /\ result = NoResult
    /\ pc = Idle
    /\ args = [p \in Callers |-> NoCall]
    /\ snap = [p \in Callers |-> <<>>]
    /\ nb = [p \in Callers |-> <<>>]
    /\ ret = [p \in Callers |-> NoResult]
    /\ hist = [digest |-> NoResult, again |-> NoResult, changed |-> FALSE,
               edits |-> 0, fetched |-> <<>>]

\* A faulty variant of SessionRender: the render drops the outputs of the
\* cells it has shown from the file.
SessionRenderClearing ==
    /\ call = NoCall
    /\ call' = [op |-> "get_formatted_content"]
    /\ pre' = disk
    /\ result' = get_formatted_content(disk)
    /\ disk' = [disk EXCEPT !.cells =
                    [k \in 1..Len(disk.cells) |->
                         [disk.cells[k] EXCEPT !.outputs = <<>>]]]
    /\ hist' = IF hist.digest = NoResult \/ hist.changed
               THEN [hist EXCEPT !.digest = result', !.again = NoResult,
                                 !.changed = FALSE, !.fetched = <<>>]
               ELSE [hist EXCEPT !.again = result']
    /\ UNCHANGED <<pc, args, snap, nb, ret>>

SessionRender ==
    /\ call = NoCall
    /\ call' = [op |-> "get_formatted_content"]
    /\ pre' = disk
    /\ result' = get_formatted_content(disk)
    /\ disk' = disk
    /\ hist' = IF hist.digest = NoResult \/ hist.changed
               THEN [hist EXCEPT !.digest = result', !.again = NoResult,
                                 !.changed = FALSE, !.fetched = <<>>]
               ELSE [hist EXCEPT !.again = result']
    /\ UNCHANGED <<pc, args, snap, nb, ret>>

\* the (cell, output) pairs of the locators written in a digest, in either
\* of the two forms the renderer writes
LocatorsIn(formatted_content) ==
    { l \in ConcIndices \X OutputIndices :
          \/ Contains(formatted_content, Locator(l[1], l[2]))
          \/ Contains(formatted_content, ShortLocator(l[1], l[2])) }

SessionFetch ==
    \E i \in ConcIndices, o \in OutputIndices :
        /\ call = NoCall
        /\ call' = [op |-> "get_full_output", cell_index |-> i,
                    output_index |-> o, type_hint |-> None]
        /\ pre' = disk
        /\ result' = get_full_output(disk, i, o, None)
        /\ disk' = disk
        /\ hist' = IF /\ hist.digest # NoResult
                      /\ ~hist.changed
                      /\ <<i, o>> \in LocatorsIn(hist.digest.formatted_content)
                      /\ result'.error = None
                   THEN [hist EXCEPT !.fetched = <<i, o>>]
                   ELSE hist
        /\ UNCHANGED <<pc, args, snap, nb, ret>>

SessionMutate ==
    \E a \in ConcCalls(disk) :
        /\ call = NoCall
        /\ hist.edits < MaxSessionEdits
        /\ call' = a
        /\ pre' = disk
        /\ result' = Handler(a, disk).result
        /\ disk' = Handler(a, disk).disk
        /\ hist' = [hist EXCEPT !.changed = TRUE, !.edits = @ + 1]
        /\ UNCHANGED <<pc, args, snap, nb, ret>>

NextSession ==
    \/ Return
    \/ SessionRender
    \/ SessionFetch
    \/ SessionMutate

SpecSession == InitSession /\ [][NextSession]_vars

-----------------------------------------------------------------------------
(* SpecLineage: one caller makes mutating calls, one after the other, on a *)
(* notebook whose cells differ by position.  hist keeps the cells as       *)
(* loaded before the first call (loaded) and, for every cell of the stored *)
(* notebook, the position at load of the cell it is, or 0 once a call has  *)
(* created it or written its source (origin).                              *)

\* the cell at position k at load: code with an output of its own, or
\* markdown
LineageCells(k) ==
    { [cell_type |-> "code", source |-> <<ToString(k)>>,
       outputs |-> <<StreamOutput("stdout", <<ToString(k)>>)>>],
      new_markdown_cell(<<ToString(k)>>) }

LineageNotebooks ==
    UNION { { c \in [1..n -> UNION { LineageCells(k) : k \in 1..n }] :
                  \A k \in 1..n : c[k] \in LineageCells(k) } :
            n \in 1..MaxConcCells }

\* what a successful call does to the positions: the call's index
\* arithmetic, applied to the origins
Track(a, origin) ==
    CASE a.op = "edit_cell" -> ListSet(origin, a.cell_index - 1, 0)
      [] a.op = "add_cell" -> ListInsert(origin, a.cell_index - 1, 0)
      [] a.op = "delete_cell" -> ListDelete(origin, a.cell_index - 1)
      [] a.op = "merge_cells" ->
            ListDelete(ListSet(origin, a.cell_index1 - 1, 0),
                       a.cell_index2 - 1)

InitLineage ==
    /\ disk \in { NotebookFile(c) : c \in LineageNotebooks }
    /\ pre = disk
    /\ call = NoCall
    /\ result = NoResult
    /\ pc = Idle
    /\ args = [p \in Callers |-> NoCall]
    /\ snap = [p \in Callers |-> <<>>]
    /\ nb = [p \in Callers |-> <<>>]
    /\ ret = [p \in Callers |-> NoResult]
    /\ hist = [loaded |-> disk.cells,
               origin |-> [k \in 1..Len(disk.cells) |-> k]]

LineageCall ==
    \E a \in ConcCalls(disk) :
        /\ call = NoCall
        /\ call' = a
        /\ pre' = disk
        /\ result' = Handler(a, disk).result
        /\ disk' = Handler(a, disk).disk
        /\ hist' = IF result'.success
                   THEN [hist EXCEPT !.origin = Track(a, @)]
                   ELSE hist
        /\ UNCHANGED <<pc, args, snap, nb, ret>>

NextLineage ==
    \/ Return
    \/ LineageCall

SpecLineage == InitLineage /\ [][NextLineage]_vars

-----------------------------------------------------------------------------
(* Claims checked under Spec.  In a state that follows a handler call,     *)
(* call holds the call, pre the file the call found, result what it        *)
(* returned and disk the file it left.                                     *)

MutatingOps == {"edit_cell", "add_cell", "delete_cell", "merge_cells"}

Called(op) == call.op = op

\* the call loaded a notebook: pre.cells is notebook.cells as loaded
Loaded == Readable(pre)

\* cells is before without the cell at 1-based position i
IsWithout(cells, before, i) ==
    /\ Len(cells) = Len(before) - 1
    /\ \A k \in 1..Len(cells) :
           cells[k] = IF k < i THEN before[k] ELSE before[k + 1]

\* cells is before with cell put at 1-based position i, the rest shifted up
IsWith(cells, before, i, cell) ==
    /\ Len(cells) = Len(before) + 1
    /\ cells[i] = cell
    /\ \A k \in 1..Len(before) :
           before[k] = IF k < i THEN cells[k] ELSE cells[k + 1]

\* C1 (as claimed): whenever a mutating call returns a failure, whatever made
\* it fail (load, validation, or the save step itself), the file is exactly
\* what it was before the call.
C1_FailedCallLeavesFile ==
    (call.op \in MutatingOps /\ ~result.success) => disk = pre

\* C4: merge_cells(A, B) with both indices in bounds and B = A + 1, in a call
\* that meets no storage failure, succeeds; the stored cells are the
\* original ones with A and B replaced, at A's position, by one cell whose
\* source is A.source + "\n" + B.source, whose kind is code iff both are code
\* and markdown otherwise, and whose outputs are empty; every other cell is
\* unchanged and in order, and there is exactly one cell less.
C4_MergeAdjacent ==
    (/\ Called("merge_cells")
     /\ Loaded
     /\ call.cell_index1 \in 1..Len(pre.cells)
     /\ call.cell_index2 \in 1..Len(pre.cells)
     /\ call.cell_index2 = call.cell_index1 + 1
     /\ call.fault = "none")
    => LET a == call.cell_index1
           A == pre.cells[a]
           B == pre.cells[a + 1]
       IN  /\ result.success
           /\ result.error = None
           /\ disk.state = "notebook"
           /\ Len(disk.cells) = Len(pre.cells) - 1
           /\ disk.cells[a].source = A.source \o <<"\n">> \o B.source
           /\ disk.cells[a].cell_type =
                  IF A.cell_type = "code" /\ B.cell_type = "code"
                  THEN "code" ELSE "markdown"
           /\ disk.cells[a].outputs = <<>>
           /\ \A k \in 1..Len(disk.cells) :
                  /\ k < a => disk.cells[k] = pre.cells[k]
                  /\ k > a => disk.cells[k] = pre.cells[k + 1]

\* C4 witness: two code cells, the first with outputs, were merged in a
\* notebook that has a third cell.
C4_Witness ==
    /\ Called("merge_cells")
    /\ result.success
    /\ Len(pre.cells) = 3
    /\ call.cell_index1 = 2
    /\ pre.cells[2].cell_type = "code"
    /\ pre.cells[2].outputs # <<>>
    /\ pre.cells[3].cell_type = "code"
    /\ Len(disk.cells) = 2

\* C5 (as claimed): every merge_cells call with B # A + 1, in range or not,
\* fails with the not-consecutive error and leaves the file as it was.
C5_NonAdjacentIsNotConsecutive ==
    (/\ Called("merge_cells")
     /\ Loaded
     /\ call.cell_index2 # call.cell_index1 + 1)
    => /\ ~result.success
       /\ result.error = "Cells are not consecutive"
       /\ disk = pre

\* C5 (amended): every merge_cells call with B # A + 1 fails and leaves the
\* file as it was; the error is the not-consecutive one when both indices are
\* in bounds, and the out-of-bounds one when either is not.
C5_NonAdjacentFails ==
    (/\ Called("merge_cells")
     /\ Loaded
     /\ call.cell_index2 # call.cell_index1 + 1)
    => /\ ~result.success
       /\ disk = pre
       /\ result.error =
              IF /\ call.cell_index1 \in 1..Len(pre.cells)
                 /\ call.cell_index2 \in 1..Len(pre.cells)
              THEN "Cells are not consecutive"
              ELSE "One or both cell indices are out of bounds"

\* C5 witness: two in-bounds indices in reversed order were refused as not
\* consecutive.
C5_Witness ==
    /\ Called("merge_cells")
    /\ Loaded
    /\ call.cell_index1 = 2
    /\ call.cell_index2 = 1
    /\ Len(pre.cells) >= 2
    /\ result.error = "Cells are not consecutive"

\* C7 (as claimed): add_cell succeeds iff 1 <= index <= len(cells) + 1 and
\* the kind is "code" or "markdown" (in a call that meets no storage failure);
\* on success the new cell (given kind, given text, no outputs) is at
\* position index, the cells formerly at positions >= index are shifted up by
\* one and unchanged, and new_cell_actual_index is index; on every failure
\* new_cell_actual_index is -1 and the file is what it was.
C7_AddCell ==
    (Called("add_cell") /\ Loaded)
    => LET valid == /\ call.cell_index \in 1..(Len(pre.cells) + 1)
                    /\ call.cell_type \in {"code", "markdown"}
       IN  /\ result.success => valid
           /\ (valid /\ call.fault = "none") => result.success
           /\ result.success =>
                  /\ disk.state = "notebook"
                  /\ IsWith(disk.cells, pre.cells, call.cell_index,
                            [cell_type |-> call.cell_type,
                             source |-> call.source_content,
                             outputs |-> <<>>])
                  /\ result.new_cell_actual_index = call.cell_index
           /\ ~result.success =>
                  /\ result.new_cell_actual_index = -1
                  /\ disk = pre

\* the section the renderer emits for a cell of the given kind at 1-based
\* position i whose source is text and which has no outputs to list
SectionWithoutOutputs(i, kind, text) ==
    CellHeader(i, kind) \o <<CodeFence, "\n">> \o Strip(text)
        \o <<"\n", CodeFence, "\n", "\n">>

\* C6: edit_cell succeeds iff 1 <= index <= len(cells) (in a call that meets
\* no storage failure); on success the stored cell at that index has the new
\* source, its former kind and, if it is code, no outputs; every other cell
\* and the length are unchanged; and the render of the stored notebook has,
\* for that cell, the section with the (trimmed) new source, followed by the
\* next cell's header or the end, and no output header for that cell.
C6_EditCell ==
    (Called("edit_cell") /\ Loaded)
    => LET i == call.cell_index
           valid == i \in 1..Len(pre.cells)
           digest == get_formatted_content(disk)
           fc == digest.formatted_content
           at == Find(fc, CellHeader(i, pre.cells[i].cell_type), 1, FALSE)
           section == SectionWithoutOutputs(i, pre.cells[i].cell_type,
                                            call.new_source_content)
       IN  /\ result.success => valid
           /\ (valid /\ call.fault = "none") => result.success
           /\ result.success =>
                  /\ disk.state = "notebook"
                  /\ Len(disk.cells) = Len(pre.cells)
                  /\ disk.cells[i].source = call.new_source_content
                  /\ disk.cells[i].cell_type = pre.cells[i].cell_type
                  /\ disk.cells[i].cell_type = "code"
                         => disk.cells[i].outputs = <<>>
                  /\ \A k \in 1..Len(pre.cells) :
                         k # i => disk.cells[k] = pre.cells[k]
                  /\ digest.error = None
                  /\ at # 0
                  /\ MatchAt(fc, at, section, FALSE)
                  /\ \/ at + Len(section) = Len(fc) + 1
                     \/ MatchAt(fc, at + Len(section),
                                <<"[[Cell ", ToString(i + 1)>>, FALSE)
                  /\ ~Contains(fc, OutputHeader(i))

\* C6 witness: a code cell that had outputs was edited, with a new source
\* that has whitespace around it; another cell of the notebook still lists
\* its outputs in the render.
C6_Witness ==
    /\ Called("edit_cell")
    /\ result.success
    /\ pre.cells[call.cell_index].cell_type = "code"
    /\ pre.cells[call.cell_index].outputs # <<>>
    /\ call.new_source_content # Strip(call.new_source_content)
    /\ \E k \in 1..Len(disk.cells) :
           Contains(get_formatted_content(disk).formatted_content,
                    OutputHeader(k))

\* C8: delete_cell succeeds iff 1 <= index <= len(cells) (in a call that
\* meets no storage failure); on success the stored cells are exactly the
\* original ones without the cell at that index: every other cell keeps its
\* kind, source and outputs, in the same order.
C8_DeleteCell ==
    (Called("delete_cell") /\ Loaded)
    => LET valid == call.cell_index \in 1..Len(pre.cells)
       IN  /\ result.success => valid
           /\ (valid /\ call.fault = "none") => result.success
           /\ result.success =>
                  /\ disk.state = "notebook"
                  /\ IsWithout(disk.cells, pre.cells, call.cell_index)

\* C8 witness: the middle cell of three was deleted; its neighbours differ.
C8_Witness ==
    /\ Called("delete_cell")
    /\ result.success
    /\ call.cell_index = 2
    /\ Len(pre.cells) = 3
    /\ pre.cells[1] # pre.cells[3]
    /\ disk.cells = <<pre.cells[1], pre.cells[3]>>

\* C10: get_full_output checks the locator against the stored notebook: at a
\* code cell with outputs it returns error None for every output index in
\* 1..count and the out-of-bounds error for index 0 or > count; it returns
\* the cell out-of-bounds error for cell index 0 or > len(cells), and an
\* error when the cell is not code or has no outputs.
C10_FetchValidatesLocator ==
    (Called("get_full_output") /\ Loaded)
    => LET i == call.cell_index
           o == call.output_index
       IN  IF i < 1 \/ i > Len(pre.cells)
           THEN result.error = "Cell index out of bounds"
           ELSE IF pre.cells[i].cell_type # "code" \/ pre.cells[i].outputs = <<>>
           THEN result.error = "Cell is not a code cell or has no outputs"
           ELSE IF o < 1 \/ o > Len(pre.cells[i].outputs)
           THEN result.error = "Output index out of bounds"
           ELSE result.error = None

\* C10 witness: the last output of a code cell was fetched.
C10_Witness ==
    /\ Called("get_full_output")
    /\ Loaded
    /\ call.cell_index \in 1..Len(pre.cells)
    /\ pre.cells[call.cell_index].outputs # <<>>
    /\ call.output_index = Len(pre.cells[call.cell_index].outputs)
    /\ result.error = None
    /\ result.mime_type # None

-----------------------------------------------------------------------------
(* Claims checked under SpecConc.                                          *)

\* the steps of one call, in order
StepOrder ==
    { <<"idle", "validate">>, <<"idle", "done">>, <<"validate", "mutate">>,
      <<"validate", "done">>, <<"mutate", "persist">>, <<"persist", "done">> }

\* C2: every mutating call takes its steps in the order load, validate,
\* mutate in memory, persist; the file changes only in a persist step, the
\* in-memory notebook only in a mutate step; and a call whose validation
\* fails (index out of range, unrecognized kind, non-adjacent pair) returns a
\* failure from its validate step with its in-memory notebook as loaded and
\* the file untouched, so it never reaches a mutate or a persist step.
C2_ValidateBeforeMutateAndPersist ==
    [][\A p \in Callers :
          /\ pc'[p] # pc[p] => <<pc[p], pc'[p]>> \in StepOrder
          /\ nb'[p] # nb[p] => pc[p] \in {"idle", "mutate"}
          /\ (pc[p] = "idle" /\ pc'[p] = "validate") => nb'[p] = snap'[p]
          /\ (pc[p] = "mutate" /\ pc'[p] # pc[p]) => snap'[p] = snap[p]
          /\ (pc'[p] # pc[p] /\ pc[p] # "persist") => disk' = disk
          /\ (/\ pc[p] = "validate"
              /\ pc'[p] # pc[p]
              /\ ValidationError(args[p], nb[p]) # None)
             => /\ pc'[p] = "done"
                /\ ~ret'[p].success
                /\ ret'[p].error = ValidationError(args[p], snap[p])
                /\ nb'[p] = snap[p]
                /\ disk' = disk]_vars

\* C2 witness: one caller was refused for an unrecognized kind and the other
\* for a non-adjacent pair; neither mutated its notebook, and the file is
\* still what both loaded.
C2_Witness ==
    /\ pc[1] = "done"
    /\ pc[2] = "done"
    /\ ret[1].error = "Invalid cell type"
    /\ ret[2].error = "Cells are not consecutive"
    /\ nb[1] = snap[1]
    /\ nb[2] = snap[2]
    /\ disk = NotebookFile(snap[1])
    /\ disk = NotebookFile(snap[2])

\* C3: the save step of a call takes no account of what the file holds: it
\* succeeds and replaces the file by the caller's own in-memory notebook,
\* computed from what that caller loaded, also when the file has changed
\* since (no lock, no version check: the last writer wins).
C3_LastWriterWins ==
    [][\A p \in Callers :
          (pc[p] = "persist" /\ pc'[p] = "done" /\ args[p].fault = "none")
          => /\ ret'[p].success
             /\ nb[p] = Mutated(args[p], snap[p])
             /\ disk' = NotebookFile(nb[p])]_vars

\* C3 witness: both callers loaded the same two-cell notebook before either
\* saved; caller 1 replaced the source of cell 1 and caller 2 deleted cell 2;
\* both calls report success, and the file holds caller 2's notebook only:
\* cell 1 has the source it had before caller 1's edit.
C3_Witness ==
    /\ pc[1] = "done"
    /\ pc[2] = "done"
    /\ ret[1].success
    /\ ret[2].success
    /\ snap[1] = snap[2]
    /\ Len(snap[1]) = 2
    /\ args[1].op = "edit_cell"
    /\ args[1].cell_index = 1
    /\ args[2].op = "delete_cell"
    /\ args[2].cell_index = 2
    /\ nb[1][1].source = args[1].new_source_content
    /\ disk = NotebookFile(nb[2])
    /\ disk.cells[1] = snap[1][1]
    /\ disk.cells[1].source # args[1].new_source_content

-----------------------------------------------------------------------------
(* Claims checked under SpecFormat.                                        *)

\* the output a get_full_output call that passed its checks has selected
Fetched == pre.cells[call.cell_index].outputs[call.output_index]

\* the call was a get_full_output that passed its checks, at a result
FetchedResult ==
    /\ Called("get_full_output")
    /\ Loaded
    /\ Returned(result)
    /\ result.error = None
    /\ Fetched.output_type \in {"display_data", "execute_result"}

\* the payload key a type hint asks for
HintKeys ==
    { <<"image", "image/png">>, <<"text", "text/plain">>,
      <<"table", "text/html">> }

\* C11: for a result output, get_full_output returns the payload under the
\* key its type hint asks for (image: image/png, text: text/plain, table:
\* text/html) when the output has that key, with the key as mime type; in
\* every other case text/plain if present, else image/png if present, else
\* a JSON encoding of the whole data dict as application/json.
C11_FetchSelection ==
    FetchedResult
    => LET data == Fetched.data
           asked == { hk \in HintKeys :
                          hk[1] = call.type_hint /\ HasKey(data, hk[2]) }
           Returns(key) ==
               /\ result.mime_type = key
               /\ result.full_output_data = DataAt(data, key)
       IN  IF asked # {}
           THEN \A hk \in asked : Returns(hk[2])
           ELSE IF HasKey(data, "text/plain")
           THEN Returns("text/plain")
           ELSE IF HasKey(data, "image/png")
           THEN Returns("image/png")
           ELSE /\ result.mime_type = "application/json"
                /\ result.full_output_data = JsonDumps(data)
                /\ \A i \in 1..Len(data) :
                       \E k \in 1..Len(result.full_output_data) :
                           result.full_output_data[k] = data[i][1]

\* C11 witness: the hint "table" was honoured on an output that also has
\* text/plain and image/png, and the JSON fallback was not taken.
C11_Witness ==
    /\ FetchedResult
    /\ call.type_hint = "table"
    /\ HasKey(Fetched.data, "text/plain")
    /\ HasKey(Fetched.data, "image/png")
    /\ result.mime_type = "text/html"
    /\ result.full_output_data = DataAt(Fetched.data, "text/html")

\* the call was a get_formatted_content that returned a digest
Rendered ==
    /\ Called("get_formatted_content")
    /\ Loaded
    /\ Returned(result)
    /\ result.error = None

\* the positions of a digest at which an output line starts
OutputLineStarts(formatted_content) ==
    { k \in 1..Len(formatted_content) : formatted_content[k] = "- " }

\* C15 (as claimed): the digest has an output section for a cell iff the
\* cell is code with outputs, and in it one line per output, in output
\* order, except that an output whose summary is empty (unrecognized
\* output type) has no line at all: there are as many output lines as
\* outputs with a summary, and none that is empty.
C15_NoLineForEmptySummary ==
    Rendered
    => LET fc == result.formatted_content
           cells == pre.cells
           summarized ==
               { <<i, j>> \in (1..Len(cells)) \X (1..(MaxPrefix + 1)) :
                     /\ cells[i].cell_type = "code"
                     /\ j <= Len(cells[i].outputs)
                     /\ OutputSummary(cells[i].outputs[j], i, j) # <<>> }
       IN  /\ \A i \in 1..Len(cells) :
                  Contains(fc, OutputHeader(i))
                      <=> (cells[i].cell_type = "code"
                               /\ cells[i].outputs # <<>>)
           /\ Cardinality(OutputLineStarts(fc)) = Cardinality(summarized)
           /\ \A k \in OutputLineStarts(fc) : fc[k + 1] # "\n"

\* the values a result record carries when the call failed
DefaultsOnFailure ==
    CASE Called("get_formatted_content") ->
            result.formatted_content = <<>>
      [] Called("get_full_output") ->
            result.full_output_data = None /\ result.mime_type = None
      [] Called("add_cell") ->
            result.success = FALSE /\ result.new_cell_actual_index = -1
      [] OTHER ->
            result.success = FALSE

\* C12 (as claimed): every call returns a result record, whatever the inputs
\* and the stored notebook: none raises; a record with an error has the
\* default values; a mutating call has success true exactly when its error
\* is null.
C12_AlwaysReturnsRecord ==
    call # NoCall
    => /\ Returned(result)
       /\ result.error # None => DefaultsOnFailure
       /\ call.op \in MutatingOps => (result.success <=> result.error = None)

\* the cell of a rendered notebook that has the outputs (the last one)
CodeCellIndex == Len(pre.cells)

RenderedOutputs == pre.cells[CodeCellIndex].outputs

\* the pieces of the j-th output line of a digest, from after its "- " up
\* to the first line end
OutputLine(formatted_content, j) ==
    LET starts == OutputLineStarts(formatted_content)
        start == CHOOSE k \in starts :
                     Cardinality({ m \in starts : m < k }) = j - 1
        stop == CHOOSE k \in (start + 1)..Len(formatted_content) :
                    /\ formatted_content[k] = "\n"
                    /\ \A m \in (start + 1)..(k - 1) :
                           formatted_content[m] # "\n"
    IN  SubSeq(formatted_content, start + 1, stop - 1)

\* the text a text summary is made of: a stream's text, or the text/plain
\* payload of a result with neither image nor markup
IsTextOutput(output) ==
    \/ output.output_type = "stream"
    \/ /\ output.output_type \in {"display_data", "execute_result"}
       /\ HasKey(output.data, "text/plain")
       /\ ~HasKey(output.data, "image/png")
       /\ ~HasKey(output.data, "text/html")

TextOf(output) ==
    IF output.output_type = "stream"
    THEN output.text
    ELSE DataAt(output.data, "text/plain")

\* C16: the summary of a stream output, or of a result with plain text
\* only, whose text has length L: if L > 500 it is the first 500 characters
\* of the text, then the truncation marker, the hint and the locator
\* "(cell c [1-based], output o [1-based])" with the output's own 1-based
\* indices; if L <= 500 it is the whole text, with no truncation marker.
C16_TextBudget ==
    Rendered
    => \A j \in 1..Len(RenderedOutputs) :
           IsTextOutput(RenderedOutputs[j])
           => LET text == TextOf(RenderedOutputs[j])
                  line == OutputLine(result.formatted_content, j)
              IN  IF Len(text) > 500
                  THEN /\ Len(line) = 1 + 500 + 4 + 5
                       /\ line[1] = "Text: "
                       /\ \A k \in 1..500 : line[1 + k] = text[k]
                       /\ line[502] = "... "
                       /\ line[503] = "[TRUNCATED]"
                       /\ line[505] = HINT_FULL_OUTPUT
                       /\ SubSeq(line, 506, 510)
                              = <<" (cell ", ToString(CodeCellIndex),
                                  " [1-based], output ", ToString(j),
                                  " [1-based])">>
                  ELSE /\ line = <<"Text: ">> \o text
                       /\ \A k \in 1..Len(line) : line[k] # "[TRUNCATED]"

\* C16 witness: the second cell's first output is a stream of 800
\* characters; its summary has the marker and the locator of cell 2,
\* output 1.
C16_Witness ==
    /\ Rendered
    /\ CodeCellIndex = 2
    /\ RenderedOutputs[1].output_type = "stream"
    /\ Len(RenderedOutputs[1].text) = 800
    /\ Contains(OutputLine(result.formatted_content, 1),
                <<"[TRUNCATED]", " ", HINT_FULL_OUTPUT, " (cell ", "2",
                  " [1-based], output ", "1", " [1-based])">>)

IsResult(output) ==
    output.output_type \in {"display_data", "execute_result"}

\* the markup has a table tag, in whatever letter-casing
HasTableTag(html) == Find(html, <<"<", "t", "a", "b", "l", "e">>, 1, TRUE) # 0

\* the first piece of a summary of each kind; the table extractor has two
TableHeads == {"Table (HTML): \n", "HTML content (truncated): "}

\* the j-th output of the rendered cell is a result whose markup has a
\* table tag and which has no image
IsTableResult(j) ==
    /\ IsResult(RenderedOutputs[j])
    /\ ~HasKey(RenderedOutputs[j].data, "image/png")
    /\ HasKey(RenderedOutputs[j].data, "text/html")
    /\ HasTableTag(DataAt(RenderedOutputs[j].data, "text/html"))

\* C17 (as claimed): the summary of a result is chosen by a fixed priority
\* over its payload keys: with an image, the image identifier (and the
\* bytes are not in the line); otherwise, with markup that has a table tag,
\* the table extractor's summary; otherwise, with plain text, the text
\* summary; otherwise the "other data type" summary, which lists the keys.
C17_DispatchPriority ==
    Rendered
    => \A j \in 1..Len(RenderedOutputs) :
           IsResult(RenderedOutputs[j])
           => LET data == RenderedOutputs[j].data
                  line == OutputLine(result.formatted_content, j)
              IN  IF HasKey(data, "image/png")
                  THEN /\ line[1] = "Image (PNG) - IMG_ID"
                       /\ \A k \in 1..Len(line) :
                              \A b \in 1..Len(DataAt(data, "image/png")) :
                                  line[k] # DataAt(data, "image/png")[b]
                  ELSE IF IsTableResult(j)
                  THEN line[1] \in TableHeads
                  ELSE IF HasKey(data, "text/plain")
                  THEN line[1] = "Text: "
                  ELSE /\ line[1] = "Other data type: "
                       /\ \A i \in 1..Len(data) :
                              \E k \in 1..Len(line) : line[k] = data[i][1]

\* C18 (as claimed): the table tag is detected in whatever letter-casing
\* it is written ("<table", "<TABLE", "<Table"): the summary of a result
\* with such markup and no image is the table extractor's.
C18_TableTagAnyCase ==
    Rendered
    => \A j \in 1..Len(RenderedOutputs) :
           IsTableResult(j)
           => OutputLine(result.formatted_content, j)[1] \in TableHeads

\* the summary of the j-th output in a digest: the pieces from after its
\* "- " up to the end of its line (the next output line, or the end of the
\* cell's section, follows)
SummaryIn(formatted_content, j) ==
    LET starts == OutputLineStarts(formatted_content)
        start == CHOOSE k \in starts :
                     Cardinality({ m \in starts : m < k }) = j - 1
        later == { k \in starts : k > start }
        stop == IF later = {}
                THEN Len(formatted_content)
                ELSE CHOOSE k \in later : \A m \in later : k <= m
    IN  SubSeq(formatted_content, start + 1, stop - 2)

\* the pipe rows expected of the body rows r..n of TableHtml, each after a
\* line end
RECURSIVE ExpectedDataRows(_, _)
ExpectedDataRows(r, n) ==
    IF r > n
    THEN <<>>
    ELSE <<"\n", "| ", ToString(r), " | ", "v", " |">>
             \o ExpectedDataRows(r + 1, n)

\* C19: for a table with a header of two columns and R body rows, the
\* summary is the header row, the separator row with one dash group per
\* column, the first min(R, 5) body rows in document order, the truncation
\* marker line iff R > 5, inside the markdown fence, then the hint and the
\* locator.
C19_TableRows ==
    Rendered
    => \A j \in 1..Len(RenderedOutputs) : \A R \in 0..MaxBodyRows :
           RenderedOutputs[j].data
               = << <<"text/html",
                      TableHtml(<<"t", "a", "b", "l", "e">>, TRUE, R)>> >>
           => SummaryIn(result.formatted_content, j)
                  = <<"Table (HTML): \n", CodeFence, "markdown\n">>
                        \o <<"| ", "a", " | ", "<", " |">>
                        \o <<"\n", "|", "---|", "---|">>
                        \o ExpectedDataRows(1, IF R < 5 THEN R ELSE 5)
                        \o (IF R > 5 THEN <<"\n... ", "[TRUNCATED]">> ELSE <<>>)
                        \o <<"\n", CodeFence, "\n", HINT_FULL_OUTPUT>>
                        \o <<" (cell ", ToString(CodeCellIndex),
                             " [1-based], output ", ToString(j),
                             " [1-based])">>

\* C19 witness: a table with a header and 8 body rows was rendered: rows 1
\* to 5 and the truncation marker are in the summary, row 6 is not.
C19_Witness ==
    /\ Rendered
    /\ RenderedOutputs[1].data
           = << <<"text/html",
                  TableHtml(<<"t", "a", "b", "l", "e">>, TRUE, 8)>> >>
    /\ Contains(SummaryIn(result.formatted_content, 1),
                <<"| ", "5", " | ", "v", " |", "\n... ", "[TRUNCATED]">>)
    /\ ~Contains(SummaryIn(result.formatted_content, 1), <<"| ", "6">>)

-----------------------------------------------------------------------------
(* Claims checked under SpecSession.                                       *)

FetchedAtRenderedLocator ==
    /\ Called("get_full_output")
    /\ hist.digest # NoResult
    /\ <<call.cell_index, call.output_index>>
           \in LocatorsIn(hist.digest.formatted_content)

\* C20: every locator a render writes into the digest denotes an output of
\* the stored notebook: a fetch at it, with no mutating call since the
\* render, returns error null and the payload of that output.  Whatever was
\* rendered before, a fetch answers from the stored notebook as it is now:
\* its error is the one the checks give on the current cells, and a stream
\* payload is the text of the current output at that position.
C20_LocatorConsistency ==
    (Called("get_full_output") /\ Loaded)
    => /\ (FetchedAtRenderedLocator /\ ~hist.changed)
              => /\ result.error = None
                 /\ call.cell_index \in 1..Len(disk.cells)
                 /\ call.output_index
                        \in 1..Len(disk.cells[call.cell_index].outputs)
       /\ result.error
              = FullOutputError(disk.cells, call.cell_index, call.output_index)
       /\ (result.error = None
               /\ disk.cells[call.cell_index].outputs[call.output_index]
                      .output_type = "stream")
              => result.full_output_data
                     = disk.cells[call.cell_index].outputs[call.output_index]
                           .text

\* C20 witness: a locator written by a render was fetched with error null,
\* a mutating call followed, and the fetch at the same locator now fails.
C20_Witness ==
    /\ FetchedAtRenderedLocator
    /\ hist.changed
    /\ hist.fetched = <<call.cell_index, call.output_index>>
    /\ result.error # None

-----------------------------------------------------------------------------
(* Claims checked under SpecLineage.                                       *)

\* C14: after any sequence of edit_cell, add_cell, delete_cell and
\* merge_cells calls on a notebook in which only code cells have outputs,
\* a stored cell with outputs is a cell of the notebook as loaded, with the
\* source and the outputs it had then, that no call has created or written;
\* a cell a call created (add, merge) or whose source a call wrote (edit)
\* has no outputs.
C14_OutputsOnlyInherited ==
    /\ Readable(disk)
    /\ Len(hist.origin) = Len(disk.cells)
    /\ \A k \in 1..Len(disk.cells) :
           IF hist.origin[k] = 0
           THEN disk.cells[k].outputs = <<>>
           ELSE disk.cells[k] = hist.loaded[hist.origin[k]]

\* C14 witness: the second cell of the loaded notebook, a code cell, is now
\* the first, with the outputs it had at load, and the cell after it is a
\* code cell a call created, without outputs.
C14_Witness ==
    /\ Len(disk.cells) = 2
    /\ hist.origin = <<2, 0>>
    /\ disk.cells[1].outputs # <<>>
    /\ disk.cells[1].outputs = hist.loaded[2].outputs
    /\ disk.cells[2].cell_type = "code"
    /\ disk.cells[2].outputs = <<>>

====
